---- MODULE Spec2Model ----
(***************************************************************************)
(* kea_digest_bot/digest.py: the weekly energy digest run.  main() calls   *)
(* collect_all_news, generate_digest, build_pdf and send_email once, in    *)
(* that order.  The model follows one run of main() against an environment *)
(* (the feeds, the listing pages, the answer the text service would give,  *)
(* the mail relay) fixed at the start of the run.                          *)
(*                                                                         *)
(* Text is modelled as a sequence of Unicode code points, so that          *)
(* str.lower, slicing, str.strip, startswith, split and the substring test *)
(* act on characters as they do in Python.  A comment beside each literal  *)
(* gives the text it encodes.  An optional value (None or absent in the    *)
(* source) is the empty tuple, a present value v the 1-tuple <<v>>.        *)
(***************************************************************************)
EXTENDS Integers, Sequences, FiniteSets, TLC

VARIABLES
  feeds,      \* environment: per RSS source, what feedparser.parse returns
  pages,      \* environment: per scrape source, what the HTTP fetch returns
  response,   \* environment: the text the generative service would answer
  smtp_ok,    \* environment: whether the mail relay accepts the message
  clock,      \* datetime.now(), in hours
  pc,         \* position in main()
  i,          \* index of the source the running collector loop is at
  since,      \* collect_all_news: the recency cutoff
  rss,        \* collect_rss: articles
  scrp,       \* collect_scraped: articles
  warned,     \* sources for which a log.warning('... failed ...') was emitted
  articles,   \* main: the list collect_all_news returned
  request,    \* the prompt handed to model.generate_content, if any
  digest,     \* main: the document generate_digest returned
  pdf,        \* build_pdf: the document built, its block flow and page banner
  email,      \* the message handed to srv.sendmail, if any
  raised,     \* the exception that ended the run, if any
  trace       \* stage starts and ends, in the order they happened

vars == <<feeds, pages, response, smtp_ok, clock, pc, i, since, rss, scrp,
          warned, articles, request, digest, pdf, email, raised, trace>>

-----------------------------------------------------------------------------
(* Bounds of the model *)

\* hours the clock may advance during one run
MaxTick == 1
\* longest feed in the families that enumerate all feeds over a pool
MaxEntries == 2

-----------------------------------------------------------------------------
(* Text *)

RECURSIVE Concat(_)
\* ''.join(parts)
Concat(parts) ==
  IF parts = <<>> THEN <<>> ELSE Head(parts) \o Concat(Tail(parts))

\* s[:n]
Take(s, n) == IF Len(s) <= n THEN s ELSE SubSeq(s, 1, n)

\* s[n:]
Drop(s, n) == IF Len(s) <= n THEN <<>> ELSE SubSeq(s, n + 1, Len(s))

\* one character of str.lower(): Latin A-Z, Cyrillic А-Я and Ё
LowerChar(c) ==
  IF (c >= 65 /\ c <= 90) \/ (c >= 1040 /\ c <= 1071) THEN c + 32
  ELSE IF c = 1025 THEN 1105
  ELSE c

\* str.lower()
Lower(s) == [k \in 1..Len(s) |-> LowerChar(s[k])]

\* str.isspace() of one character: space, tab, LF, CR, no-break space
IsSpace(c) == c \in {32, 9, 10, 13, 160}

RECURSIVE LStrip(_)
LStrip(s) == IF s # <<>> /\ IsSpace(Head(s)) THEN LStrip(Tail(s)) ELSE s

RECURSIVE RStrip(_)
RStrip(s) ==
  IF s # <<>> /\ IsSpace(s[Len(s)]) THEN RStrip(SubSeq(s, 1, Len(s) - 1)) ELSE s

\* str.strip()
Strip(s) == RStrip(LStrip(s))

\* kw in t
Contains(kw, t) ==
  \E p \in 1..(Len(t) - Len(kw) + 1) : \A j \in 1..Len(kw) : t[p + j - 1] = kw[j]

\* t.startswith(prefix)
StartsWith(t, prefix) ==
  Len(t) >= Len(prefix) /\ \A j \in 1..Len(prefix) : t[j] = prefix[j]

\* the decimal digits of n, as text
RECURSIVE Digits(_)
Digits(n) == IF n < 10 THEN <<48 + n>> ELSE Digits(n \div 10) \o <<48 + (n % 10)>>

\* dt.strftime('%d.%m.%Y'): the calendar day of an instant; the day is written
\* as its number since the epoch of the clock, not as day.month.year
strftime(ts) == Digits(ts \div 24)

\* ENERGY_KW, in source order
ENERGY_KW ==
  << <<1101, 1085, 1077, 1088, 1075, 1077, 1090, 1080, 1082>>,
     <<1101, 1083, 1077, 1082, 1090, 1088, 1086, 1101, 1085, 1077, 1088, 1075, 1080>>,
     <<1101, 1083, 1077, 1082, 1090, 1088, 1086, 1089, 1090, 1072, 1085, 1094, 1080>>,
     <<1101, 1083, 1077, 1082, 1090, 1088, 1086, 1089, 1077, 1090>>,
     <<1090, 1072, 1088, 1080, 1092>>,
     <<1072, 1088, 1077, 1084>>,
     <<1084, 1101, 1084, 1088>>,
     <<1084, 1080, 1085, 1101, 1085, 1077, 1088, 1075, 1086>>,
     <<1075, 1077, 1085, 1077, 1088, 1072, 1094, 1080>>,
     <<1084, 1086, 1097, 1085, 1086, 1089, 1090>>,
     <<1082, 1074, 1090>>,
     <<1084, 1074, 1090>>,
     <<1075, 1074, 1090>>,
     <<1090, 1101, 1089>>,
     <<1075, 1088, 1101, 1089>>,
     <<1075, 1101, 1089>>,
     <<1090, 1101, 1094>>,
     <<1074, 1101, 1089>>,
     <<1089, 1101, 1089>>,
     <<1074, 1080, 1101>>,
     <<1074, 1086, 1079, 1086, 1073, 1085, 1086, 1074, 1083, 1103, 1077, 1084>>,
     <<1091, 1075, 1086, 1083, 1100>>,
     <<1091, 1075, 1086, 1083, 1100, 1085>>,
     <<1085, 1072, 1082, 1086, 1087, 1080, 1090, 1077, 1083, 1100>>,
     <<98, 101, 115, 115>>,
     <<1074, 1086, 1076, 1086, 1088, 1086, 1076>>,
     <<1072, 1090, 1086, 1084, 1085>>,
     <<1072, 1101, 1089>>,
     <<1101, 1085, 1077, 1088, 1075, 1086, 1089, 1080, 1089, 1090, 1077, 1084>>,
     <<1101, 1085, 1077, 1088, 1075, 1086, 1073, 1072, 1083, 1072, 1085, 1089>>,
     <<1076, 1077, 1092, 1080, 1094, 1080, 1090, 32, 1101, 1083, 1077, 1082, 1090, 1088>>,
     <<1080, 1084, 1087, 1086, 1088, 1090, 32, 1101, 1083, 1077, 1082, 1090, 1088>>,
     <<1101, 1082, 1089, 1087, 1086, 1088, 1090, 32, 1101, 1083, 1077, 1082, 1090, 1088>>,
     <<1087, 1086, 1076, 1089, 1090, 1072, 1085, 1094, 1080>>,
     <<107, 101, 103, 111, 99>>,
     <<1082, 1077, 1075, 1086, 1082>>,
     <<1089, 1072, 1084, 1088, 1091, 1082>>,
     <<115, 97, 109, 114, 117, 107>>,
     <<1079, 1077, 1083, 1105, 1085>>,
     <<1079, 1077, 1083, 1077, 1085>>,
     <<1101, 1085, 1077, 1088, 1075, 1077, 1090, 1080, 1095, 1077, 1089, 1082, 1080, 1081, 32, 1087, 1077, 1088, 1077, 1093, 1086, 1076>>,
     <<113, 97, 122, 97, 113, 103, 114, 101, 101, 110>>,
     <<1082, 1072, 1079, 1072, 1090, 1086, 1084, 1087, 1088, 1086, 1084>>,
     <<107, 97, 122, 101, 110, 101, 114, 103, 121>>,
     <<1090, 1086, 1082>>,
     <<1085, 1072, 1087, 1088, 1103, 1078, 1077, 1085, 1080>>,
     <<1089, 1077, 1090, 1100, 32, 1087, 1077, 1088, 1077, 1076, 1072, 1095>> >>

-----------------------------------------------------------------------------
(* Configuration tables *)

\* RSS_SOURCES: the names of the first two of the nine feeds; every feed is
\* handled by the same loop body
RSS_SOURCES ==
  << <<81, 97, 122, 97, 113, 71, 114, 101, 101, 110>>,     \* QazaqGreen
     <<75, 97, 112, 105, 116, 97, 108, 46, 107, 122>> >>   \* Kapital.kz

\* SCRAPE_SOURCES: name, base URL and the alternatives of the item selector
SCRAPE_SOURCES ==
  << [ name |-> <<1052, 1069, 1052, 1056, 32, 1056, 1050>>,   \* МЭМР РК
       base |-> <<104, 116, 116, 112, 115, 58, 47, 47, 101, 110, 101, 114,
                  103, 111, 46, 103, 111, 118, 46, 107, 122>>, \* https://energo.gov.kz
       item_sel |-> <<".news-item", ".news__item", "article">> ],
     [ name |-> <<1055, 1088, 1072, 1074, 1080, 1090, 1077, 1083, 1100, 1089,
                  1090, 1074, 1086, 32, 1056, 1050>>,          \* Правительство РК
       base |-> <<104, 116, 116, 112, 115, 58, 47, 47, 112, 114, 105, 109,
                  101, 109, 105, 110, 105, 115, 116, 101, 114, 46, 107, 122>>,
                                                   \* https://primeminister.kz
       item_sel |-> <<".news-item", ".list__item", ".article-item">> ] >>

\* timedelta(days=7)
RecencyDays == 7
\* [:500], the summary cut
SummaryMax == 500
\* [:60], the title prefix of the deduplication key
KeyLen == 60
\* [:20], the listing items taken from one page
MaxItems == 20

-----------------------------------------------------------------------------
(* 1. News collection *)

\* the substring test with its operands exchanged: t in kw
is_energy_relevant_swapped(text) ==
  LET t == Lower(text)
  IN  \E k \in 1..Len(ENERGY_KW) : Contains(t, ENERGY_KW[k])

\* is_energy_relevant(text): any(kw in t for kw in ENERGY_KW), t = text.lower()
is_energy_relevant(text) ==
  LET t == Lower(text)
  IN  \E k \in 1..Len(ENERGY_KW) : Contains(ENERGY_KW[k], t)

\* parse_date(entry): the first of published_parsed, updated_parsed,
\* created_parsed that is set, else datetime.now()
parse_date(entry, now) ==
  IF entry.published_parsed # <<>> THEN entry.published_parsed[1]
  ELSE IF entry.updated_parsed # <<>> THEN entry.updated_parsed[1]
  ELSE IF entry.created_parsed # <<>> THEN entry.created_parsed[1]
  ELSE now

RECURSIVE JoinStripped(_)
\* the stripped, non-empty text nodes joined by one space
JoinStripped(nodes) ==
  IF nodes = <<>> THEN <<>>
  ELSE LET h == Strip(Head(nodes))
           r == JoinStripped(Tail(nodes))
       IN  IF h = <<>> THEN r
           ELSE IF r = <<>> THEN h
           ELSE h \o <<32>> \o r

\* BeautifulSoup(markup, 'html.parser').get_text(' ', strip=True), on the text
\* nodes the parser found in the markup
get_text(nodes) == JoinStripped(nodes)

\* entry.get('summary', entry.get('description', '')): the markup to clean
SummaryMarkup(entry) ==
  IF entry.summary.kind # "absent" THEN entry.summary
  ELSE IF entry.description.kind # "absent" THEN entry.description
  ELSE [kind |-> "nodes", nodes |-> <<>>]

\* the recency test that also drops an entry stamped exactly at the cutoff
TooOldInclusive(pub, cutoff) == pub <= cutoff

\* pub < since
TooOld(pub, cutoff) == pub < cutoff

\* the body of the entry loop of collect_rss for one entry: what happened
\* ("old", "irrelevant", "kept", or "raised" when the markup parser rejects
\* the summary) and the article appended, if one was
RssEntry(name, entry, cutoff, now) ==
  LET pub == parse_date(entry, now)
  IN  IF TooOld(pub, cutoff) THEN [outcome |-> "old", article |-> <<>>]
      ELSE
        LET title  == Strip(IF entry.title = <<>> THEN <<>> ELSE entry.title[1])
            markup == SummaryMarkup(entry)
        IN  IF markup.kind = "rejected"
            THEN [outcome |-> "raised", article |-> <<>>]
            ELSE
              LET summary == Take(get_text(markup.nodes), SummaryMax)
              IN  IF ~is_energy_relevant(title \o <<32>> \o summary)
                  THEN [outcome |-> "irrelevant", article |-> <<>>]
                  ELSE [outcome |-> "kept",
                        article |-> << [ source  |-> name,
                                         title   |-> title,
                                         summary |-> summary,
                                         link    |-> entry.link,
                                         date    |-> strftime(pub) ] >>]

RECURSIVE RssLoop(_, _, _, _, _)
\* for entry in feed.entries, inside the try block: the articles list after
\* the loop ended or was left by an exception, and whether it was
RssLoop(name, entries, cutoff, now, acc) ==
  IF entries = <<>> THEN [articles |-> acc, failed |-> FALSE]
  ELSE LET r == RssEntry(name, Head(entries), cutoff, now)
       IN  IF r.outcome = "raised" THEN [articles |-> acc, failed |-> TRUE]
           ELSE RssLoop(name, Tail(entries), cutoff, now, acc \o r.article)

\* one pass of `for src in RSS_SOURCES` in collect_rss: try/except around the
\* fetch and the entry loop
RssSource(name, feed, cutoff, now, acc) ==
  IF feed.kind = "error" THEN [articles |-> acc, failed |-> TRUE]
  ELSE RssLoop(name, feed.entries, cutoff, now, acc)

\* soup.select(item_sel)[:20]: the elements matching any alternative of the
\* selector group, in document order
SelectItems(src, elements) ==
  LET alts == {src.item_sel[k] : k \in 1..Len(src.item_sel)}
      Hit(el) == el.matches \cap alts # {}
  IN  Take(SelectSeq(elements, Hit), MaxItems)

\* link = href if href.startswith('http') else src['base'] + href
ResolveLink(src, item) ==
  IF item.href = <<>> \/ item.href[1] = <<>> THEN <<>>
  ELSE IF StartsWith(item.href[1], <<104, 116, 116, 112>>) THEN item.href[1]
  ELSE src.base \o item.href[1]

\* an item loop that skips a listing item dated before the cutoff
ScrapeItemAged(src, item, now) ==
  IF item.title_el = <<>> THEN <<>>
  ELSE IF "stamp" \in DOMAIN item /\ item.stamp < since THEN <<>>
  ELSE LET title == get_text(item.title_el[1])
       IN  IF ~is_energy_relevant(title) THEN <<>>
           ELSE << [ source  |-> src.name,
                     title   |-> title,
                     summary |-> <<>>,
                     link    |-> ResolveLink(src, item),
                     date    |-> strftime(now) ] >>

\* the body of the item loop of collect_scraped for one listing item
ScrapeItem(src, item, now) ==
  IF item.title_el = <<>> THEN <<>>
  ELSE LET title == get_text(item.title_el[1])
       IN  IF ~is_energy_relevant(title) THEN <<>>
           ELSE << [ source  |-> src.name,
                     title   |-> title,
                     summary |-> <<>>,
                     link    |-> ResolveLink(src, item),
                     date    |-> strftime(now) ] >>

RECURSIVE ScrapeLoop(_, _, _, _)
ScrapeLoop(src, items, now, acc) ==
  IF items = <<>> THEN acc
  ELSE ScrapeLoop(src, Tail(items), now, acc \o ScrapeItem(src, Head(items), now))

\* one pass of `for src in SCRAPE_SOURCES` in collect_scraped; `since` is an
\* argument of collect_scraped that its body never reads
ScrapeSource(src, page, now, acc) ==
  IF page.kind = "error" THEN [articles |-> acc, failed |-> TRUE]
  ELSE [articles |-> ScrapeLoop(src, SelectItems(src, page.elements), now, acc),
        failed |-> FALSE]

\* the first 35 characters as the key
DedupKeyShort(a) == Lower(Take(a.title, 35))

\* key = a['title'][:60].lower()
DedupKey(a) == Lower(Take(a.title, KeyLen))

RECURSIVE DedupLoop(_, _, _)
DedupLoop(all_news, seen, unique) ==
  IF all_news = <<>> THEN unique
  ELSE LET a == Head(all_news)
           key == DedupKey(a)
       IN  IF key \notin seen
           THEN DedupLoop(Tail(all_news), seen \cup {key}, Append(unique, a))
           ELSE DedupLoop(Tail(all_news), seen, unique)

\* deduplication that keeps the last article of each key
DedupLast(all_news) ==
  LET Later(k) == \E m \in (k + 1)..Len(all_news) :
                     DedupKey(all_news[m]) = DedupKey(all_news[k])
      Keep == {k \in 1..Len(all_news) : ~Later(k)}
      RECURSIVE Pick(_)
      Pick(k) == IF k > Len(all_news) THEN <<>>
                 ELSE (IF k \in Keep THEN <<all_news[k]>> ELSE <<>>) \o Pick(k + 1)
  IN  Pick(1)

\* the deduplication loop of collect_all_news over rss + scrp
Dedup(all_news) == DedupLoop(all_news, {}, <<>>)

-----------------------------------------------------------------------------
(* 2. Digest generation *)

\* DIGEST_PROMPT from its line 'ФОРМАТ ОТВЕТА' on, with the JSON example cut
\* to its first section: the text keeps the example's literal braces and the
\* {news_block} field, in the source's order
DIGEST_PROMPT ==
  <<
    1060, 1054, 1056, 1052, 1040, 1058, 32, 1054, 1058, 1042, 1045, 1058,
    1040, 32, 40, 1089, 1090, 1088, 1086, 1075, 1086, 32, 74, 83, 79, 78,
    44, 32, 1073, 1077, 1079, 32, 109, 97, 114, 107, 100, 111, 119, 110,
    45, 1086, 1073, 1088, 1072, 1084, 1083, 1077, 1085, 1080, 1103, 41, 58,
    10, 123, 10, 32, 32, 34, 112, 101, 114, 105, 111, 100, 34, 58, 32, 34,
    1076, 1076, 46, 1084, 1084, 46, 1075, 1075, 1075, 1075, 32, 8212, 32,
    1076, 1076, 46, 1084, 1084, 46, 1075, 1075, 1075, 1075, 34, 44, 10, 32,
    32, 34, 115, 101, 99, 116, 105, 111, 110, 115, 34, 58, 32, 91, 10, 32,
    32, 32, 32, 123, 10, 32, 32, 32, 32, 32, 32, 34, 105, 100, 34, 58, 32,
    34, 114, 101, 103, 117, 108, 97, 116, 111, 114, 121, 34, 44, 10, 32,
    32, 32, 32, 32, 32, 34, 105, 116, 101, 109, 115, 34, 58, 32, 91, 46,
    46, 46, 93, 10, 32, 32, 32, 32, 125, 10, 32, 32, 93, 44, 10, 32, 32,
    34, 114, 101, 113, 117, 105, 114, 101, 115, 95, 97, 99, 116, 105, 111,
    110, 34, 58, 32, 91, 46, 46, 46, 93, 10, 125, 10, 10, 1053, 1054, 1042,
    1054, 1057, 1058, 1048, 32, 1047, 1040, 32, 1053, 1045, 1044, 1045,
    1051, 1070, 58, 10, 123, 110, 101, 119, 115, 95, 98, 108, 111, 99, 107,
    125, 10
  >>

\* the least member of a non-empty set of positions
First(S) == CHOOSE p \in S : \A q \in S : p <= q

\* the positions of the braces of t from p on
Braces(t, p) == {q \in p..Len(t) : t[q] \in {123, 125}}

RECURSIVE FieldEnd(_, _, _)
\* str.format: the position of the '}' that closes the replacement field whose
\* text starts at p, nested braces counted; 0 when the field is never closed
FieldEnd(t, p, depth) ==
  IF Braces(t, p) = {} THEN 0
  ELSE LET q == First(Braces(t, p))
       IN  IF t[q] = 123 THEN FieldEnd(t, q + 1, depth + 1)
           ELSE IF depth = 0 THEN q
           ELSE FieldEnd(t, q + 1, depth - 1)

\* str.format: the field name, the field's text up to its first ':' or '!'
FieldName(f) ==
  LET stops == {q \in 1..Len(f) : f[q] \in {58, 33}}
  IN  IF stops = {} THEN f ELSE Take(f, First(stops) - 1)

RECURSIVE PyFormat(_, _, _, _)
\* template.format(**{kw.name: kw.value}) from position p on: text outside
\* braces is copied, '{{' and '}}' are literal braces, '{' opens a replacement
\* field whose name is looked up in the keyword arguments (KeyError when it is
\* not one of them), a single '}' is a ValueError
PyFormat(t, p, kw, out) ==
  IF Braces(t, p) = {} THEN [error |-> "", text |-> out \o Drop(t, p - 1)]
  ELSE
    LET q    == First(Braces(t, p))
        copy == out \o SubSeq(t, p, q - 1)
    IN  IF q < Len(t) /\ t[q + 1] = t[q]
        THEN PyFormat(t, q + 2, kw, Append(copy, t[q]))
        ELSE IF t[q] = 125 THEN [error |-> "ValueError", text |-> <<>>]
        ELSE LET e == FieldEnd(t, q + 1, 0)
             IN  IF e = 0 THEN [error |-> "ValueError", text |-> <<>>]
                 ELSE IF FieldName(SubSeq(t, q + 1, e - 1)) # kw.name
                      THEN [error |-> "KeyError", text |-> <<>>]
                      ELSE PyFormat(t, e + 1, kw, copy \o kw.value)

\* DIGEST_PROMPT.format(news_block=news_block)
FormatPrompt(news_block) ==
  PyFormat(DIGEST_PROMPT, 1,
           [name  |-> <<110, 101, 119, 115, 95, 98, 108, 111, 99, 107>>,
            value |-> news_block],                          \* news_block
           <<>>)

\* one entry of the listing:
\* f'{i}. [{source} | {date}] {title}\n   {summary}\n   Ссылка: {link}'
NewsLine(k, a) ==
  Digits(k) \o <<46, 32, 91>> \o a.source \o <<32, 124, 32>> \o a.date
    \o <<93, 32>> \o a.title
    \o <<10, 32, 32, 32>> \o a.summary
    \o <<10, 32, 32, 32, 1057, 1089, 1099, 1083, 1082, 1072, 58, 32>> \o a.link

RECURSIVE JoinLines(_, _)
\* '\n\n'.join of the entries from the k-th on
JoinLines(arts, k) ==
  IF k > Len(arts) THEN <<>>
  ELSE IF k = Len(arts) THEN NewsLine(k, arts[k])
  ELSE NewsLine(k, arts[k]) \o <<10, 10>> \o JoinLines(arts, k + 1)

\* format_news_block(articles): enumerate(articles, 1)
format_news_block(arts) == JoinLines(arts, 1)

\* the synthetic article of generate_digest: source 'Система', title
\* 'За текущую неделю существенных новостей не обнаружено'
Placeholder(now) ==
  [ source  |-> <<1057, 1080, 1089, 1090, 1077, 1084, 1072>>,
    date    |-> strftime(now),
    title   |-> <<1047, 1072, 32, 1090, 1077, 1082, 1091, 1097, 1091, 1102, 32,
                  1085, 1077, 1076, 1077, 1083, 1102, 32, 1089, 1091, 1097, 1077,
                  1089, 1090, 1074, 1077, 1085, 1085, 1099, 1093, 32, 1085, 1086,
                  1074, 1086, 1089, 1090, 1077, 1081, 32, 1085, 1077, 32, 1086,
                  1073, 1085, 1072, 1088, 1091, 1078, 1077, 1085, 1086>>,
    summary |-> <<>>,
    link    |-> <<>> ]

\* the fence marker ```
Fence == <<96, 96, 96>>

\* the fence handling of generate_digest:
\*   if raw.startswith('```'):
\*       raw = raw.split('\n', 1)[1]; raw = raw.rsplit('```', 1)[0]
\* split('\n', 1)[1] is an IndexError when raw has no line break
StripFences(raw) ==
  IF ~StartsWith(raw, Fence) THEN [error |-> "", text |-> raw]
  ELSE
    LET breaks == {p \in 1..Len(raw) : raw[p] = 10}
    IN  IF breaks = {} THEN [error |-> "IndexError", text |-> <<>>]
        ELSE
          LET nl   == CHOOSE p \in breaks : \A q \in breaks : p <= q
              rest == Drop(raw, nl)
              marks == {p \in 1..(Len(rest) - 2) :
                          SubSeq(rest, p, p + 2) = Fence}
          IN  IF marks = {} THEN [error |-> "", text |-> rest]
              ELSE LET last == CHOOSE p \in marks : \A q \in marks : q <= p
                   IN  [error |-> "", text |-> Take(rest, last - 1)]

\* json: the whitespace between tokens
IsJsonWs(c) == c \in {32, 9, 10, 13}

RECURSIVE SkipWs(_, _)
SkipWs(t, p) == IF p <= Len(t) /\ IsJsonWs(t[p]) THEN SkipWs(t, p + 1) ELSE p

\* a JSONDecodeError
JsonFail == [ok |-> FALSE, ty |-> "error", val |-> <<>>, pos |-> 0]

\* json: a string starting at its opening quote t[p]; escape sequences are
\* not part of the modelled grammar and are rejected with control characters
ParseString(t, p) ==
  LET quotes == {q \in (p + 1)..Len(t) : t[q] = 34}
  IN  IF quotes = {} THEN JsonFail
      ELSE LET q == CHOOSE x \in quotes : \A y \in quotes : x <= y
           IN  IF \E m \in (p + 1)..(q - 1) : t[m] = 92 \/ t[m] < 32
               THEN JsonFail
               ELSE [ok |-> TRUE, ty |-> "str",
                     val |-> SubSeq(t, p + 1, q - 1), pos |-> q + 1]

RECURSIVE ParseValue(_, _)
RECURSIVE ParseElements(_, _, _)
RECURSIVE ParseMembers(_, _, _)

\* json: the elements of an array after '[' or ',', up to the closing ']'
ParseElements(t, p, acc) ==
  LET v == ParseValue(t, p)
  IN  IF ~v.ok THEN JsonFail
      ELSE LET q == SkipWs(t, v.pos)
           IN  IF q > Len(t) THEN JsonFail
               ELSE IF t[q] = 44 THEN ParseElements(t, q + 1, Append(acc, v.val))
               ELSE IF t[q] = 93
                    THEN [ok |-> TRUE, ty |-> "list",
                          val |-> Append(acc, v.val), pos |-> q + 1]
               ELSE JsonFail

\* json: the members of an object after '{' or ',', up to the closing '}'; a
\* dict is a function from its keys, a repeated key keeps its last value
ParseMembers(t, p, acc) ==
  LET k == SkipWs(t, p)
  IN  IF k > Len(t) \/ t[k] # 34 THEN JsonFail
      ELSE
        LET key == ParseString(t, k)
        IN  IF ~key.ok THEN JsonFail
            ELSE
              LET c == SkipWs(t, key.pos)
              IN  IF c > Len(t) \/ t[c] # 58 THEN JsonFail
                  ELSE
                    LET v == ParseValue(t, c + 1)
                    IN  IF ~v.ok THEN JsonFail
                        ELSE
                          LET q   == SkipWs(t, v.pos)
                              now == (key.val :> v.val) @@ acc
                          IN  IF q > Len(t) THEN JsonFail
                              ELSE IF t[q] = 44 THEN ParseMembers(t, q + 1, now)
                              ELSE IF t[q] = 125
                                   THEN [ok |-> TRUE, ty |-> "dict",
                                         val |-> now, pos |-> q + 1]
                              ELSE JsonFail

\* json: one value (an object, an array or a string) starting at or after p
ParseValue(t, p0) ==
  LET p == SkipWs(t, p0)
  IN  IF p > Len(t) THEN JsonFail
      ELSE IF t[p] = 34 THEN ParseString(t, p)
      ELSE IF t[p] = 91 THEN
        (LET q == SkipWs(t, p + 1)
         IN  IF q <= Len(t) /\ t[q] = 93
             THEN [ok |-> TRUE, ty |-> "list", val |-> <<>>, pos |-> q + 1]
             ELSE ParseElements(t, p + 1, <<>>))
      ELSE IF t[p] = 123 THEN
        (LET q == SkipWs(t, p + 1)
         IN  IF q <= Len(t) /\ t[q] = 125
             THEN [ok |-> TRUE, ty |-> "dict", val |-> <<>>, pos |-> q + 1]
             ELSE ParseMembers(t, p + 1, <<>>))
      ELSE JsonFail

\* json.loads(text): one value and nothing but whitespace after it
json_loads(text) ==
  LET v == ParseValue(text, 1)
  IN  IF v.ok /\ SkipWs(text, v.pos) > Len(text) THEN v ELSE JsonFail

\* d.get(key, default)
Get(d, key, default) == IF key \in DOMAIN d THEN d[key] ELSE default

\* generate_digest(articles), given the text the service answers a request
\* with: the exception raised if any, the prompt handed to generate_content
\* if that call was reached, and the document returned
generate_digest(arts, answer, now) ==
  LET listed     == IF arts = <<>> THEN <<Placeholder(now)>> ELSE arts
      news_block == format_news_block(listed)
      prompt     == FormatPrompt(news_block)
  IN  IF prompt.error # ""
      THEN [raised |-> <<prompt.error>>, request |-> <<>>, digest |-> <<>>]
      ELSE
        LET sent == <<prompt.text>>
            raw  == StripFences(Strip(answer))
        IN  IF raw.error # ""
            THEN [raised |-> <<raw.error>>, request |-> sent, digest |-> <<>>]
            ELSE
              LET doc == json_loads(raw.text)
              IN  IF ~doc.ok
                  THEN [raised |-> <<"JSONDecodeError">>, request |-> sent,
                        digest |-> <<>>]
                  ELSE IF doc.ty # "dict"
                  THEN [raised |-> <<"AttributeError">>, request |-> sent,
                        digest |-> <<>>]
                  ELSE [raised |-> <<>>, request |-> sent, digest |-> doc.val]

-----------------------------------------------------------------------------
(* 3. PDF generation *)

\* the keys of the digest document
K_period          == <<112, 101, 114, 105, 111, 100>>
K_sections        == <<115, 101, 99, 116, 105, 111, 110, 115>>
K_requires_action == <<114, 101, 113, 117, 105, 114, 101, 115, 95, 97, 99,
                       116, 105, 111, 110>>
K_title           == <<116, 105, 116, 108, 101>>
K_icon            == <<105, 99, 111, 110>>
K_items           == <<105, 116, 101, 109, 115>>
K_label           == <<108, 97, 98, 101, 108>>
K_source          == <<115, 111, 117, 114, 99, 101>>
K_text            == <<116, 101, 120, 116>>

\* 'текущая неделя', the period build_pdf falls back to
DefaultPeriod ==
  <<1090, 1077, 1082, 1091, 1097, 1072, 1103, 32, 1085, 1077, 1076, 1077, 1083,
    1103>>

\* '•', the icon build_pdf falls back to
Bullet == <<8226>>

\* Spacer(1, n * mm)
SP(n) == [kind |-> "Spacer", mm |-> n]

\* title_block(period, st): the heading, the line 'Период: {period}' and the
\* caption
title_block(period) == [kind |-> "title_block", period |-> period]

\* section_header_table(title, icon): the bar reading f'{icon}  {title}'
section_header_table(title, icon) ==
  [kind |-> "section_header", text |-> icon \o <<32, 32>> \o title]

\* news_item_table(label, source, text, st)
news_item_table(label, source, text) ==
  [kind |-> "news_item", label |-> label, source |-> source, text |-> text]

\* KeepTogether(flowables)
KeepTogether(flowables) == [kind |-> "KeepTogether", blocks |-> flowables]

\* the rows build_pdf makes of the items of one section
ItemRows(items) ==
  [k \in 1..Len(items) |->
     news_item_table(Get(items[k], K_label, <<>>),
                     Get(items[k], K_source, <<>>),
                     Get(items[k], K_text, <<>>))]

\* a section loop that keeps only the header and its spacer together
SectionFlowLooseItem(sec) ==
  LET items == Get(sec, K_items, <<>>)
  IN  IF items = <<>> THEN [error |-> "", blocks |-> <<>>]
      ELSE IF K_title \notin DOMAIN sec THEN [error |-> "KeyError", blocks |-> <<>>]
      ELSE
        LET block == << section_header_table(sec[K_title],
                                             Get(sec, K_icon, Bullet)),
                        SP(2) >> \o ItemRows(items) \o <<SP(5)>>
        IN  [error |-> "",
             blocks |-> <<KeepTogether(Take(block, 2))>> \o Drop(block, 2)]

\* one pass of `for sec in sections` in build_pdf: the blocks it adds to the
\* story, or the KeyError of sec['title']
SectionFlow(sec) ==
  LET items == Get(sec, K_items, <<>>)
  IN  IF items = <<>> THEN [error |-> "", blocks |-> <<>>]
      ELSE IF K_title \notin DOMAIN sec THEN [error |-> "KeyError", blocks |-> <<>>]
      ELSE
        LET block == << section_header_table(sec[K_title],
                                             Get(sec, K_icon, Bullet)),
                        SP(2) >> \o ItemRows(items) \o <<SP(5)>>
        IN  [error |-> "",
             blocks |-> <<KeepTogether(Take(block, 3))>> \o Drop(block, 3)]

RECURSIVE SectionsFlow(_, _)
\* `for sec in sections`, from the k-th section on
SectionsFlow(sections, k) ==
  IF k > Len(sections) THEN [error |-> "", blocks |-> <<>>]
  ELSE LET one == SectionFlow(sections[k])
       IN  IF one.error # "" THEN one
           ELSE LET rest == SectionsFlow(sections, k + 1)
                IN  IF rest.error # "" THEN rest
                    ELSE [error |-> "", blocks |-> one.blocks \o rest.blocks]

\* alert_table(actions, st): one numbered row per action, or the KeyError of
\* action['title'] or action['text']
alert_table(actions) ==
  IF \E k \in 1..Len(actions) :
       K_title \notin DOMAIN actions[k] \/ K_text \notin DOMAIN actions[k]
  THEN [error |-> "KeyError", blocks |-> <<>>]
  ELSE [error |-> "",
        blocks |-> << [kind |-> "alert_table",
                       rows |-> [k \in 1..Len(actions) |->
                                   [num   |-> Digits(k),
                                    title |-> actions[k][K_title],
                                    text  |-> actions[k][K_text]]]] >>]

\* the 'requires action' part of build_pdf
ActionsFlow(actions) ==
  IF actions = <<>> THEN [error |-> "", blocks |-> <<>>]
  ELSE LET table == alert_table(actions)
       IN  IF table.error # "" THEN table
           ELSE [error |-> "",
                 blocks |-> <<[kind |-> "alert_header"], SP(2)>> \o table.blocks
                              \o <<SP(5)>>]

\* build_pdf(digest, output_path): the exception raised if any, and the
\* document built: the story handed to doc.build and the period that
\* header_footer draws in the banner of every page
build_pdf(doc) ==
  LET period   == Get(doc, K_period, DefaultPeriod)
      sections == SectionsFlow(Get(doc, K_sections, <<>>), 1)
      actions  == ActionsFlow(Get(doc, K_requires_action, <<>>))
  IN  IF sections.error # "" THEN [raised |-> <<sections.error>>, pdf |-> <<>>]
      ELSE IF actions.error # "" THEN [raised |-> <<actions.error>>, pdf |-> <<>>]
      ELSE [raised |-> <<>>,
            pdf |-> << [ story  |-> <<title_block(period), SP(6)>>
                                      \o sections.blocks \o actions.blocks
                                      \o <<[kind |-> "footer_note"]>>,
                         banner |-> period ] >>]

-----------------------------------------------------------------------------
(* 4. Email sending *)

\* send_email(pdf_path, period): the exception raised if any, and the message
\* handed to srv.sendmail: its subject f'КЭА | Дайджест энергетики | {period}',
\* the period written in its body, and the number of attachments
send_email(period, relay_ok) ==
  IF ~relay_ok THEN [raised |-> <<"SMTPException">>, email |-> <<>>]
  ELSE [raised |-> <<>>,
        email |-> << [ subject |-> <<1050, 1069, 1040, 32, 124, 32, 1044, 1072,
                                     1081, 1076, 1078, 1077, 1089, 1090, 32, 1101,
                                     1085, 1077, 1088, 1075, 1077, 1090, 1080,
                                     1082, 1080, 32, 124, 32>> \o period,
                       body_period |-> period,
                       attachments |-> 1 ] >>]

-----------------------------------------------------------------------------
(* The environment of a run *)

\* the clock at the start of a run: hour 23 of day 10
StartClock == 10 * 24 + 23

\* the instant the given number of days and hours before the run starts
Ago(days, hours) == StartClock - days * 24 - hours

\* markup that is absent, that parses into text nodes, that the parser rejects
Absent      == [kind |-> "absent", nodes |-> <<>>]
Nodes(ns)   == [kind |-> "nodes", nodes |-> ns]
Rejected    == [kind |-> "rejected", nodes |-> <<>>]

\* a feed entry as feedparser hands it over
Entry(published, updated, created, title, summary, description, link) ==
  [ published_parsed |-> published, updated_parsed |-> updated,
    created_parsed |-> created, title |-> title, summary |-> summary,
    description |-> description, link |-> link ]

\* what feedparser.parse returns or that it raised
Feed(entries) == [kind |-> "ok", entries |-> entries]
FeedError     == [kind |-> "error", entries |-> <<>>]

\* a listing page: its elements in document order, each with the selector
\* alternatives it matches, the text nodes of its title element and the href
\* of its link element; or a failed fetch
Page(elements) == [kind |-> "ok", elements |-> elements]
PageError      == [kind |-> "error", elements |-> <<>>]
Element(matches, title_el, href) ==
  [matches |-> matches, title_el |-> title_el, href |-> href]

\* all sequences over S of length at most n
SeqsUpTo(S, n) == UNION {[1..m -> S] : m \in 0..n}

\* 'Минэнерго сообщило о планах'
TitleMinenergo ==
  << 1052, 1080, 1085, 1101, 1085, 1077, 1088, 1075, 1086, 32, 1089, 1086,
     1086, 1073, 1097, 1080, 1083, 1086, 32, 1086, 32, 1087, 1083, 1072, 1085,
     1072, 1093 >>

\* '  ТАРИФ вырос  '
TitleTariff ==
  << 32, 32, 1058, 1040, 1056, 1048, 1060, 32, 1074, 1099, 1088, 1086, 1089,
     32, 32 >>

\* 'Купили квартиру'
TitleFlat ==
  << 1050, 1091, 1087, 1080, 1083, 1080, 32, 1082, 1074, 1072, 1088, 1090,
     1080, 1088, 1091 >>

\* 'Запуск ГЭС'
TextGes ==
  << 1047, 1072, 1087, 1091, 1089, 1082, 32, 1043, 1069, 1057 >>

\* 'Погода в Астане'
TextWeather ==
  << 1055, 1086, 1075, 1086, 1076, 1072, 32, 1074, 32, 1040, 1089, 1090, 1072,
     1085, 1077 >>

\* 'https://qazaqgreen.com/a'
LinkA ==
  << 104, 116, 116, 112, 115, 58, 47, 47, 113, 97, 122, 97, 113, 103, 114,
     101, 101, 110, 46, 99, 111, 109, 47, 97 >>

\* '/ru/novosti/1'
HrefRel ==
  << 47, 114, 117, 47, 110, 111, 118, 111, 115, 116, 105, 47, 49 >>

\* '{"period": "01.06 - 07.06", "sections": []}'
AnswerBare ==
  << 123, 34, 112, 101, 114, 105, 111, 100, 34, 58, 32, 34, 48, 49, 46, 48,
     54, 32, 45, 32, 48, 55, 46, 48, 54, 34, 44, 32, 34, 115, 101, 99, 116,
     105, 111, 110, 115, 34, 58, 32, 91, 93, 125 >>

\* '```json\n'
FenceJson ==
  << 96, 96, 96, 106, 115, 111, 110, 10 >>

\* '\n```'
FenceClose ==
  << 10, 96, 96, 96 >>


\* the text J between an opening fence line ```json and a closing fence line
Fenced(J) == FenceJson \o J \o FenceClose

\* AnswerBare in fences
AnswerFenced == Fenced(AnswerBare)

\* 'Вот дайджест'
AnswerProse ==
  << 1042, 1086, 1090, 32, 1076, 1072, 1081, 1076, 1078, 1077, 1089, 1090 >>

\* a recent entry with a relevant title
EntryRelevant ==
  Entry(<<Ago(6, 0)>>, <<>>, <<>>, <<TitleMinenergo>>, Nodes(<<TextWeather>>),
        Absent, LinkA)

\* a recent entry relevant by its summary only, its title in capitals
EntryBySummary ==
  Entry(<<Ago(1, 0)>>, <<>>, <<>>, <<TitleFlat>>, Nodes(<<TextGes>>), Absent,
        LinkA)

\* a recent entry with no keyword
EntryIrrelevant ==
  Entry(<<Ago(2, 0)>>, <<>>, <<>>, <<TitleFlat>>, Nodes(<<TextWeather>>),
        Absent, LinkA)

\* a listing item with a relevant title and a relative link
ElementRelevant == Element({".news-item"}, <<<<TitleTariff>>>>, <<HrefRel>>)

-----------------------------------------------------------------------------
(* 5. main *)

\* the stage main calls after the given one returned
AfterStage(stage) ==
  CASE stage = "generate_digest" -> "build_pdf"
    [] stage = "build_pdf"       -> "send_email"
    [] stage = "send_email"      -> "done"

\* a main that logs the exception of a stage and goes on to the next stage
OnRaiseContinue(stage) == AfterStage(stage)

\* main has no try block: an exception of a stage ends the run
OnRaise(stage) == "terminated"

Event(stage, ev) == [stage |-> stage, ev |-> ev]

\* main up to the call of collect_rss: since = now - 7 days
CollectStart ==
  /\ pc = "main"
  /\ since' = clock - RecencyDays * 24
  /\ pc' = "collect_rss"
  /\ i' = 1
  /\ trace' = Append(trace, Event("collect_all_news", "start"))
  /\ UNCHANGED <<feeds, pages, response, smtp_ok, clock, rss, scrp, warned,
                 articles, request, digest, pdf, email, raised>>

\* collect_rss: the i-th pass of its source loop; after the last pass
\* collect_rss returns and collect_scraped starts
CollectRssSource ==
  /\ pc = "collect_rss"
  /\ LET r == RssSource(RSS_SOURCES[i], feeds[i], since, clock, rss)
     IN  /\ rss' = r.articles
         /\ warned' = IF r.failed THEN warned \cup {RSS_SOURCES[i]} ELSE warned
  /\ IF i < Len(RSS_SOURCES)
     THEN i' = i + 1 /\ pc' = pc
     ELSE i' = 1 /\ pc' = "collect_scraped"
  /\ UNCHANGED <<feeds, pages, response, smtp_ok, clock, since, scrp, articles,
                 request, digest, pdf, email, raised, trace>>

\* collect_scraped: the i-th pass of its source loop
CollectScrapedSource ==
  /\ pc = "collect_scraped"
  /\ LET r == ScrapeSource(SCRAPE_SOURCES[i], pages[i], clock, scrp)
     IN  /\ scrp' = r.articles
         /\ warned' = IF r.failed THEN warned \cup {SCRAPE_SOURCES[i].name}
                      ELSE warned
  /\ IF i < Len(SCRAPE_SOURCES)
     THEN i' = i + 1 /\ pc' = pc
     ELSE i' = 0 /\ pc' = "dedup"
  /\ UNCHANGED <<feeds, pages, response, smtp_ok, clock, since, rss, articles,
                 request, digest, pdf, email, raised, trace>>

\* collect_all_news from `all_news = rss + scrp` to its return into main
CollectReturn ==
  /\ pc = "dedup"
  /\ articles' = Dedup(rss \o scrp)
  /\ trace' = Append(trace, Event("collect_all_news", "return"))
  /\ pc' = "generate_digest"
  /\ UNCHANGED <<feeds, pages, response, smtp_ok, clock, i, since, rss, scrp,
                 warned, request, digest, pdf, email, raised>>

\* main: the call of the stage pc names (generate_digest, build_pdf,
\* send_email), its result stored, and what main does when it raises
MainStage ==
  /\ pc \in {"generate_digest", "build_pdf", "send_email"}
  /\ LET g   == generate_digest(articles, response, clock)
         b   == build_pdf(digest)
         m   == send_email(Get(digest, K_period, strftime(clock)), smtp_ok)
         err == CASE pc = "generate_digest" -> g.raised
                  [] pc = "build_pdf"       -> b.raised
                  [] pc = "send_email"      -> m.raised
     IN  /\ request' = IF pc = "generate_digest" THEN g.request ELSE request
         /\ digest' = IF pc = "generate_digest" /\ err = <<>> THEN g.digest
                      ELSE digest
         /\ pdf' = IF pc = "build_pdf" THEN b.pdf ELSE pdf
         /\ email' = IF pc = "send_email" THEN m.email ELSE email
         /\ raised' = IF raised = <<>> THEN err ELSE raised
         /\ trace' = trace \o << Event(pc, "start"),
                                 Event(pc, IF err = <<>> THEN "return" ELSE "raise") >>
         /\ pc' = IF err = <<>> THEN AfterStage(pc) ELSE OnRaise(pc)
  /\ UNCHANGED <<feeds, pages, response, smtp_ok, clock, i, since, rss, scrp,
                 warned, articles>>

\* time passes while the run is under way
Tick ==
  /\ pc \notin {"done", "terminated"}
  /\ clock < StartClock + MaxTick
  /\ clock' = clock + 1
  /\ UNCHANGED <<feeds, pages, response, smtp_ok, pc, i, since, rss, scrp,
                 warned, articles, request, digest, pdf, email, raised, trace>>

Next ==
  \/ CollectStart
  \/ CollectRssSource
  \/ CollectScrapedSource
  \/ CollectReturn
  \/ MainStage
  \/ Tick

\* main is entered: nothing collected, nothing sent
Entered ==
  /\ clock = StartClock
  /\ pc = "main"
  /\ i = 0
  /\ since = 0
  /\ rss = <<>>
  /\ scrp = <<>>
  /\ warned = {}
  /\ articles = <<>>
  /\ request = <<>>
  /\ digest = <<>>
  /\ pdf = <<>>
  /\ email = <<>>
  /\ raised = <<>>
  /\ trace = <<>>

\* the feeds of the plain runs
PlainFeeds ==
  { FeedError, Feed(<<>>), Feed(<<EntryRelevant>>),
    Feed(<<EntryIrrelevant, EntryBySummary>>) }

\* the answers the service may give in the plain runs
PlainAnswers == {AnswerBare, AnswerFenced, AnswerProse}

Init ==
  /\ feeds \in [1..Len(RSS_SOURCES) -> PlainFeeds]
  /\ pages \in { <<Page(<<>>), Page(<<>>)>>,
                 <<PageError, Page(<<ElementRelevant>>)>> }
  /\ response \in PlainAnswers
  /\ smtp_ok \in BOOLEAN
  /\ Entered

Spec == Init /\ [][Next]_vars

-----------------------------------------------------------------------------
(* Runs in which a source fails *)

\* a recent entry with a relevant title whose summary markup the parser
\* rejects (bs4 raises ParserRejectedMarkup)
EntryRejected ==
  Entry(<<Ago(3, 0)>>, <<>>, <<>>, <<TitleTariff>>, Rejected, Absent, LinkA)

\* the feeds of the runs with failing sources: a failed fetch, or up to
\* MaxEntries entries, any of which may be the one that raises
FailFeeds ==
  {FeedError} \cup
  {Feed(es) : es \in SeqsUpTo({EntryRelevant, EntryIrrelevant, EntryRejected},
                              MaxEntries)}

InitFail ==
  /\ feeds \in [1..Len(RSS_SOURCES) -> FailFeeds]
  /\ pages \in { <<Page(<<ElementRelevant>>), PageError>>,
                 <<PageError, Page(<<ElementRelevant>>)>> }
  /\ response = AnswerBare
  /\ smtp_ok = TRUE
  /\ Entered

SpecFail == InitFail /\ [][Next]_vars

-----------------------------------------------------------------------------
(* Runs with articles that share a title prefix *)

\* 'Минэнерго утвердило новый предельный тариф для электросети В Алматы'
TitleLongA ==
  << 1052, 1080, 1085, 1101, 1085, 1077, 1088, 1075, 1086, 32, 1091, 1090,
     1074, 1077, 1088, 1076, 1080, 1083, 1086, 32, 1085, 1086, 1074, 1099,
     1081, 32, 1087, 1088, 1077, 1076, 1077, 1083, 1100, 1085, 1099, 1081, 32,
     1090, 1072, 1088, 1080, 1092, 32, 1076, 1083, 1103, 32, 1101, 1083, 1077,
     1082, 1090, 1088, 1086, 1089, 1077, 1090, 1080, 32, 1042, 32, 1040, 1083,
     1084, 1072, 1090, 1099 >>

\* 'Минэнерго утвердило новый предельный тариф для электросети в столице'
TitleLongB ==
  << 1052, 1080, 1085, 1101, 1085, 1077, 1088, 1075, 1086, 32, 1091, 1090,
     1074, 1077, 1088, 1076, 1080, 1083, 1086, 32, 1085, 1086, 1074, 1099,
     1081, 32, 1087, 1088, 1077, 1076, 1077, 1083, 1100, 1085, 1099, 1081, 32,
     1090, 1072, 1088, 1080, 1092, 32, 1076, 1083, 1103, 32, 1101, 1083, 1077,
     1082, 1090, 1088, 1086, 1089, 1077, 1090, 1080, 32, 1074, 32, 1089, 1090,
     1086, 1083, 1080, 1094, 1077 >>

\* 'Минэнерго утвердило новый предельный тариф для электросети и котельных'
TitleLongC ==
  << 1052, 1080, 1085, 1101, 1085, 1077, 1088, 1075, 1086, 32, 1091, 1090,
     1074, 1077, 1088, 1076, 1080, 1083, 1086, 32, 1085, 1086, 1074, 1099,
     1081, 32, 1087, 1088, 1077, 1076, 1077, 1083, 1100, 1085, 1099, 1081, 32,
     1090, 1072, 1088, 1080, 1092, 32, 1076, 1083, 1103, 32, 1101, 1083, 1077,
     1082, 1090, 1088, 1086, 1089, 1077, 1090, 1080, 32, 1080, 32, 1082, 1086,
     1090, 1077, 1083, 1100, 1085, 1099, 1093 >>

\* 'ТЭЦ запустила новый блок мощностью 50 МВт'
TitleTec50 ==
  << 1058, 1069, 1062, 32, 1079, 1072, 1087, 1091, 1089, 1090, 1080, 1083,
     1072, 32, 1085, 1086, 1074, 1099, 1081, 32, 1073, 1083, 1086, 1082, 32,
     1084, 1086, 1097, 1085, 1086, 1089, 1090, 1100, 1102, 32, 53, 48, 32,
     1052, 1042, 1090 >>

\* 'ТЭЦ запустила новый блок мощностью 80 МВт'
TitleTec80 ==
  << 1058, 1069, 1062, 32, 1079, 1072, 1087, 1091, 1089, 1090, 1080, 1083,
     1072, 32, 1085, 1086, 1074, 1099, 1081, 32, 1073, 1083, 1086, 1082, 32,
     1084, 1086, 1097, 1085, 1086, 1089, 1090, 1100, 1102, 32, 56, 48, 32,
     1052, 1042, 1090 >>

\* 'https://kapital.kz/b'
LinkB ==
  << 104, 116, 116, 112, 115, 58, 47, 47, 107, 97, 112, 105, 116, 97, 108, 46,
     107, 122, 47, 98 >>

\* 'https://kapital.kz/c'
LinkC ==
  << 104, 116, 116, 112, 115, 58, 47, 47, 107, 97, 112, 105, 116, 97, 108, 46,
     107, 122, 47, 99 >>

\* recent entries without a summary, told apart by their links
EntryLongA == Entry(<<Ago(1, 0)>>, <<>>, <<>>, <<TitleLongA>>, Absent, Absent, LinkA)
EntryLongB == Entry(<<Ago(1, 0)>>, <<>>, <<>>, <<TitleLongB>>, Absent, Absent, LinkB)
EntryLongC == Entry(<<Ago(1, 0)>>, <<>>, <<>>, <<TitleLongC>>, Absent, Absent, LinkC)
EntryTec50 == Entry(<<Ago(2, 0)>>, <<>>, <<>>, <<TitleTec50>>, Absent, Absent, LinkA)
EntryTec80 == Entry(<<Ago(2, 0)>>, <<>>, <<>>, <<TitleTec80>>, Absent, Absent, LinkB)

\* listing items with the same titles
ElementLongA == Element({"article"}, <<<<TitleLongA>>>>, <<HrefRel>>)
ElementTec50 == Element({".list__item"}, <<<<TitleTec50>>>>, <<LinkC>>)

DedupEntries == {EntryLongA, EntryLongB, EntryLongC, EntryTec50, EntryTec80}

InitDedup ==
  /\ feeds \in { <<Feed(es), f>> :
                   es \in SeqsUpTo(DedupEntries, MaxEntries),
                   f \in { Feed(<<>>), Feed(<<EntryLongB>>),
                           Feed(<<EntryTec80, EntryTec50>>) } }
  /\ pages \in { <<Page(<<>>), Page(<<>>)>>,
                 <<Page(<<ElementLongA>>), Page(<<ElementTec50>>)>> }
  /\ response = AnswerBare
  /\ smtp_ok = TRUE
  /\ Entered

SpecDedup == InitDedup /\ [][Next]_vars

-----------------------------------------------------------------------------
(* Runs with entries of every combination of date fields *)

\* what a date field of an entry may hold: nothing, or an instant 8 days,
\* exactly 7 days or 6 days before the run starts
DateFields == { <<>>, <<Ago(8, 0)>>, <<Ago(RecencyDays, 0)>>, <<Ago(6, 0)>> }

InitDates ==
  /\ feeds \in { << Feed(<<Entry(p, u, c, <<TitleMinenergo>>, Absent, Absent, LinkA)>>),
                    f >> :
                   p \in DateFields, u \in DateFields, c \in DateFields,
                   f \in { Feed(<<>>),
                           Feed(<<Entry(<<>>, <<Ago(8, 0)>>, <<Ago(6, 0)>>,
                                        <<TitleTariff>>, Absent, Absent, LinkB)>>) } }
  /\ pages = <<Page(<<ElementRelevant>>), Page(<<>>)>>
  /\ response = AnswerBare
  /\ smtp_ok = TRUE
  /\ Entered

SpecDates == InitDates /\ [][Next]_vars

-----------------------------------------------------------------------------
(* Runs with texts that do and do not hold a keyword *)

\* 'Поезд во Владивосток'
TitleVostok ==
  << 1055, 1086, 1077, 1079, 1076, 32, 1074, 1086, 32, 1042, 1083, 1072, 1076,
     1080, 1074, 1086, 1089, 1090, 1086, 1082 >>

\* '   '
TitleBlank ==
  << 32, 32, 32 >>

\* '10 КВТ'
TextKvt ==
  << 49, 48, 32, 1050, 1042, 1058 >>

\* 'кв'
TextKv ==
  << 1082, 1074 >>

\* 'т'
TextT ==
  << 1090 >>

\* 'Зелёный'
TextGreen ==
  << 1047, 1077, 1083, 1105, 1085, 1099, 1081 >>

\* SummaryMax - 2 letters x: a text without a keyword
Filler == [k \in 1..(SummaryMax - 2) |-> 120]

\* a summary whose only keyword starts two characters before the cut
TextCutKeyword == Filler \o <<1082, 1074, 1090>>

\* a summary longer than the cut whose keyword comes first
TextLongKeyword == <<1084, 1074, 1090, 32>> \o Filler \o <<120, 120, 120>>

\* the entries of these runs, all recent: relevant by a keyword inside a word
\* of the title; by a keyword in capitals in the summary; by the description
\* when the summary is absent; by the first text node of a long summary;
\* irrelevant because the keyword is split over two text nodes, because it is
\* cut by the summary limit, because there is no text at all
TextEntries ==
  { Entry(<<Ago(1, 0)>>, <<>>, <<>>, <<TitleVostok>>, Nodes(<<TextWeather>>), Absent, LinkA),
    Entry(<<Ago(1, 0)>>, <<>>, <<>>, <<TitleFlat>>, Nodes(<<TextWeather, TextKvt>>), Absent, LinkA),
    Entry(<<Ago(1, 0)>>, <<>>, <<>>, <<TitleFlat>>, Absent, Nodes(<<TextGreen>>), LinkA),
    Entry(<<Ago(1, 0)>>, <<>>, <<>>, <<TitleFlat>>, Nodes(<<TextLongKeyword>>), Absent, LinkA),
    Entry(<<Ago(1, 0)>>, <<>>, <<>>, <<TitleFlat>>, Nodes(<<TextKv, TextT>>), Absent, LinkA),
    Entry(<<Ago(1, 0)>>, <<>>, <<>>, <<TitleFlat>>, Nodes(<<TextCutKeyword>>), Absent, LinkA),
    Entry(<<Ago(1, 0)>>, <<>>, <<>>, <<TitleFlat>>, Nodes(<<TextWeather>>), Nodes(<<TextGes>>), LinkA),
    Entry(<<Ago(1, 0)>>, <<>>, <<>>, <<TitleBlank>>, Absent, Absent, LinkA),
    Entry(<<Ago(1, 0)>>, <<>>, <<>>, <<>>, Absent, Absent, LinkA) }

\* listing items: a title in capitals and padded, a title without a keyword,
\* a title element without text
TextElements ==
  { Element({".news-item"}, <<<<TitleTariff>>>>, <<HrefRel>>),
    Element({".news-item"}, <<<<TitleFlat>>>>, <<HrefRel>>),
    Element({".news-item"}, <<<<>>>>, <<HrefRel>>) }

InitText ==
  /\ feeds \in { <<Feed(<<e>>), f>> :
                   e \in TextEntries,
                   f \in {Feed(<<>>), Feed(<<EntryBySummary, EntryIrrelevant>>)} }
  /\ pages \in { <<Page(<<el>>), Page(<<>>)>> : el \in TextElements }
  /\ response = AnswerBare
  /\ smtp_ok = TRUE
  /\ Entered

SpecText == InitText /\ [][Next]_vars

-----------------------------------------------------------------------------
(* build_pdf and send_email applied to parsed documents *)

\* '01.06 - 07.06'
PeriodJune ==
  << 48, 49, 46, 48, 54, 32, 45, 32, 48, 55, 46, 48, 54 >>

\* 'Рынок'
SecTitleMarket ==
  << 1056, 1099, 1085, 1086, 1082 >>

\* 'Сети'
SecTitleGrid ==
  << 1057, 1077, 1090, 1080 >>

\* '⚡'
IconBolt ==
  << 9889 >>

\* 'Тарифы'
LabelTariff ==
  << 1058, 1072, 1088, 1080, 1092, 1099 >>

\* 'KEGOC'
SourceKegoc ==
  << 75, 69, 71, 79, 67 >>

\* 'Тариф вырос на 5%'
TextRise ==
  << 1058, 1072, 1088, 1080, 1092, 32, 1074, 1099, 1088, 1086, 1089, 32, 1085,
     1072, 32, 53, 37 >>

\* 'Введена линия 500 кВ'
TextLine ==
  << 1042, 1074, 1077, 1076, 1077, 1085, 1072, 32, 1083, 1080, 1085, 1080,
     1103, 32, 53, 48, 48, 32, 1082, 1042 >>

\* 'Согласовать тариф'
ActTitle ==
  << 1057, 1086, 1075, 1083, 1072, 1089, 1086, 1074, 1072, 1090, 1100, 32,
     1090, 1072, 1088, 1080, 1092 >>

\* 'До 15 июня'
ActText ==
  << 1044, 1086, 32, 49, 53, 32, 1080, 1102, 1085, 1103 >>

\* the document, section, item or action d with only the fields of ks present
Restrict(d, ks) == [k \in DOMAIN d \cap ks |-> d[k]]

\* items: one with every field, one without a label
ItemFull == (K_label :> LabelTariff) @@ (K_source :> SourceKegoc) @@ (K_text :> TextRise)
ItemLine == (K_source :> SourceKegoc) @@ (K_text :> TextLine)

\* sections: three items; one item and no icon; an empty item list; no item
\* list
SecThree   == (K_title :> SecTitleMarket) @@ (K_icon :> IconBolt)
              @@ (K_items :> <<ItemFull, ItemLine, ItemFull>>)
SecOne     == (K_title :> SecTitleGrid) @@ (K_items :> <<ItemLine>>)
SecEmpty   == (K_title :> SecTitleGrid) @@ (K_icon :> IconBolt) @@ (K_items :> <<>>)
SecNoItems == (K_title :> SecTitleMarket)

\* an action with both fields
ActFull == (K_title :> ActTitle) @@ (K_text :> ActText)

\* the most sections a document of StructDocs has
MaxSections == 2

\* documents with every combination of up to MaxSections of these sections
StructDocs ==
  { (K_period :> PeriodJune) @@ (K_sections :> ss) @@ (K_requires_action :> acts) :
      ss \in SeqsUpTo({SecThree, SecOne, SecEmpty, SecNoItems}, MaxSections),
      acts \in {<<>>, <<ActFull>>} }

\* documents of one section, one item and one action with every combination
\* of fields absent
MissingDocs ==
  { Restrict((K_period :> PeriodJune) @@ (K_sections :> <<sec>>)
             @@ (K_requires_action :> <<act>>), tk) :
      tk  \in SUBSET {K_period, K_sections, K_requires_action},
      act \in {Restrict(ActFull, ak) : ak \in SUBSET {K_title, K_text}},
      sec \in { Restrict((K_title :> SecTitleMarket) @@ (K_icon :> IconBolt)
                         @@ (K_items :> <<item>>), sk) :
                  sk \in SUBSET {K_title, K_icon, K_items},
                  item \in {Restrict(ItemFull, ik) :
                              ik \in SUBSET {K_label, K_source, K_text}} } }

\* build_pdf is about to be called on a parsed document, as main calls it on
\* what generate_digest returned
InitRender ==
  /\ digest \in StructDocs \cup MissingDocs
  /\ smtp_ok \in BOOLEAN
  /\ feeds = <<Feed(<<>>), Feed(<<>>)>>
  /\ pages = <<Page(<<>>), Page(<<>>)>>
  /\ response = AnswerBare
  /\ clock = StartClock
  /\ pc = "build_pdf"
  /\ i = 0
  /\ since = StartClock - RecencyDays * 24
  /\ rss = <<>>
  /\ scrp = <<>>
  /\ warned = {}
  /\ articles = <<>>
  /\ request = <<>>
  /\ pdf = <<>>
  /\ email = <<>>
  /\ raised = <<>>
  /\ trace = <<>>

NextRender ==
  \/ MainStage
  \/ Tick

SpecRender == InitRender /\ [][NextRender]_vars

-----------------------------------------------------------------------------
(* collect_scraped called with any cutoff, on pages of mixed elements *)

\* a listing item that shows the date it was published on
Dated(el, stamp) == [stamp |-> stamp] @@ el

\* the elements of the pages: a relevant item first published a month before
\* the run; a relevant item that matches the second alternative of either
\* item selector; a relevant item that matches the third; an item without a
\* keyword; an item without a title element; a relevant element that no
\* alternative matches
ItemOld      == Dated(Element({".news-item"}, <<<<TitleTariff>>>>, <<HrefRel>>), Ago(30, 0))
ItemSecond   == Element({".news__item", ".list__item"}, <<<<TitleMinenergo>>>>, <<LinkA>>)
ItemThird    == Element({"article", ".article-item"}, <<<<TextGes>>>>, <<>>)
ItemFlat     == Element({".news-item"}, <<<<TitleFlat>>>>, <<HrefRel>>)
ItemUntitled == Element({".news-item"}, <<>>, <<HrefRel>>)
ItemOutside  == Element({}, <<<<TitleMinenergo>>>>, <<HrefRel>>)

\* a page of MaxItems + 2 items, relevant at the positions 3, MaxItems and
\* MaxItems + 1
PageLong ==
  Page([k \in 1..(MaxItems + 2) |->
          IF k \in {3, MaxItems, MaxItems + 1} THEN ItemSecond ELSE ItemFlat])

ScrapePages ==
  {PageError, PageLong} \cup
  {Page(els) : els \in SeqsUpTo({ItemOld, ItemSecond, ItemThird, ItemFlat,
                                 ItemUntitled, ItemOutside}, MaxEntries)}

\* the cutoffs collect_scraped is called with: the one of collect_all_news,
\* the time of the call, two months earlier
Cutoffs == {Ago(RecencyDays, 0), Ago(0, 0), Ago(60, 0)}

\* collect_scraped(since) is about to be called
InitScrape ==
  /\ pages \in { <<p, q>> : p \in ScrapePages,
                            q \in {PageError, Page(<<>>), Page(<<ItemSecond, ItemOld>>)} }
  /\ since \in Cutoffs
  /\ feeds = <<Feed(<<>>), Feed(<<>>)>>
  /\ response = AnswerBare
  /\ smtp_ok = TRUE
  /\ clock = StartClock
  /\ pc = "collect_scraped"
  /\ i = 1
  /\ rss = <<>>
  /\ scrp = <<>>
  /\ warned = {}
  /\ articles = <<>>
  /\ request = <<>>
  /\ digest = <<>>
  /\ pdf = <<>>
  /\ email = <<>>
  /\ raised = <<>>
  /\ trace = <<>>

NextScrape ==
  \/ CollectScrapedSource
  \/ Tick

SpecScrape == InitScrape /\ [][NextScrape]_vars

-----------------------------------------------------------------------------
(* C1: the order of the stages *)

Stages == <<"collect_all_news", "generate_digest", "build_pdf", "send_email">>

\* C1: in every run of main the stages start at most once each, in the order
\* collect_all_news, generate_digest, build_pdf, send_email, each after the
\* one before it returned; nothing is started after a stage raised; and a
\* message is handed to the relay only when the three stages before
\* send_email all returned.
C1_StageOrder ==
  /\ Len(trace) <= 2 * Len(Stages)
  /\ \A k \in 1..Len(trace) :
       /\ trace[k].stage = Stages[(k + 1) \div 2]
       /\ trace[k].ev \in (IF k % 2 = 1 THEN {"start"} ELSE {"return", "raise"})
       /\ (trace[k].ev = "raise" => k = Len(trace))
  /\ (\E k \in 1..Len(trace) : trace[k].ev = "raise") =>
       pc = "terminated" /\ raised # <<>>
  /\ email # <<>> =>
       /\ Len(trace) >= 7
       /\ \A k \in {2, 4, 6} : trace[k].ev = "return"

\* C1 witness: a run that ended when generate_digest raised, with neither
\* build_pdf nor send_email started
C1_Witness ==
  /\ pc = "terminated"
  /\ trace = << Event("collect_all_news", "start"),
                Event("collect_all_news", "return"),
                Event("generate_digest", "start"),
                Event("generate_digest", "raise") >>
  /\ email = <<>>

-----------------------------------------------------------------------------
(* C2: a failing source *)

\* C2: a source whose processing raised (it was logged as failed) has no
\* article in the lists collect_rss and collect_scraped return, and the error
\* does not leave the collector.
C2_FailedSourceContributesNothing ==
  /\ \A name \in warned :
       \A k \in 1..Len(rss \o scrp) : (rss \o scrp)[k].source # name
  /\ pc \in {"collect_rss", "collect_scraped", "dedup"} => raised = <<>>

-----------------------------------------------------------------------------
(* C3, C4: deduplication *)

\* collect_all_news has returned
Collected == Len(trace) >= 2

\* two titles agree on their first 60 characters when letter case is ignored
SameHead(t, u) ==
  \A k \in 1..60 :
    /\ k <= Len(t) <=> k <= Len(u)
    /\ k <= Len(t) => LowerChar(t[k]) = LowerChar(u[k])

\* C3: what collect_all_news returns is the list of feed articles (by source,
\* then in feed order) followed by the scraped articles, cut down to the first
\* article of every key (the first 60 characters of the title, letter case
\* ignored): no two returned articles share a key, every key of the list has
\* an article returned, and the kept articles keep their order.
C3_FirstOfEachKeyKept ==
  Collected =>
    LET input    == rss \o scrp
        Same(j, k) == SameHead(input[j].title, input[k].title)
        Firsts   == {k \in 1..Len(input) : \A j \in 1..(k - 1) : ~Same(j, k)}
        Nth(m)   == CHOOSE k \in Firsts : Cardinality({j \in Firsts : j <= k}) = m
        entries  == feeds[1].entries \o feeds[2].entries
    IN  /\ Len(articles) = Cardinality(Firsts)
        /\ \A m \in 1..Len(articles) : articles[m] = input[Nth(m)]
        /\ \A m, n \in 1..Len(articles) :
             m # n => ~SameHead(articles[m].title, articles[n].title)
        /\ \A k \in 1..Len(input) :
             \E m \in 1..Len(articles) : SameHead(articles[m].title, input[k].title)
        /\ Len(rss) = Len(entries)
        /\ \A k \in 1..Len(rss) :
             /\ rss[k].link = entries[k].link
             /\ rss[k].source = RSS_SOURCES[IF k <= Len(feeds[1].entries) THEN 1 ELSE 2]
        /\ \A j, k \in 1..Len(scrp) :
             j < k => scrp[j].source = SCRAPE_SOURCES[1].name
                      \/ scrp[k].source = SCRAPE_SOURCES[2].name

\* C3 witness: a feed article and a scraped article were dropped because an
\* earlier feed article has the same key in another letter case
C3_Witness ==
  /\ Collected
  /\ Len(rss) >= 2
  /\ rss[1].title = TitleLongB
  /\ \E k \in 2..Len(rss) : rss[k].title = TitleLongA
  /\ \E k \in 1..Len(scrp) : scrp[k].title = TitleLongA
  /\ articles[1] = rss[1]
  /\ \A m \in 1..Len(articles) : articles[m].title # TitleLongA

\* the collected list holds an article of each of the two titles
BothTecTitles ==
  /\ \E k \in 1..Len(rss \o scrp) : (rss \o scrp)[k].title = TitleTec50
  /\ \E k \in 1..Len(rss \o scrp) : (rss \o scrp)[k].title = TitleTec80

\* the articles returned under one of the two titles
TecReturned ==
  SelectSeq(articles, LAMBDA a : a.title \in {TitleTec50, TitleTec80})

\* the first collected article under the given title
FirstTitled(t) ==
  LET input == rss \o scrp
  IN  input[CHOOSE k \in 1..Len(input) :
              /\ input[k].title = t
              /\ \A j \in 1..(k - 1) : input[j].title # t]

\* C4 as stated: the two titles have the same key and collapse to one entry,
\* the first-seen one.
C4_TitlesCollapse ==
  Collected /\ BothTecTitles =>
    /\ Len(TecReturned) = 1
    /\ \E t \in {TitleTec50, TitleTec80} :
         /\ TecReturned[1] = FirstTitled(t)
         /\ \A u \in {TitleTec50, TitleTec80} :
              \A j, k \in 1..Len(rss \o scrp) :
                (rss \o scrp)[j].title = t /\ (rss \o scrp)[k].title = u /\ u # t
                  => j < k

\* C4 amended: the two titles are 41 characters long and differ in their 36th
\* character, so their keys differ; both are returned, each by its first
\* article, in the order in which those were collected.
C4_TitlesBothKept ==
  /\ Len(TitleTec50) = 41 /\ Len(TitleTec80) = 41
  /\ ~SameHead(TitleTec50, TitleTec80)
  /\ Collected /\ BothTecTitles =>
       /\ Len(TecReturned) = 2
       /\ {TecReturned[1], TecReturned[2]}
            = {FirstTitled(TitleTec50), FirstTitled(TitleTec80)}
       /\ \A j, k \in 1..Len(rss \o scrp) :
            (rss \o scrp)[j] = TecReturned[1] /\ (rss \o scrp)[k] = TecReturned[2]
              /\ (\A m \in 1..(j - 1) : (rss \o scrp)[m] # TecReturned[1])
              /\ (\A m \in 1..(k - 1) : (rss \o scrp)[m] # TecReturned[2])
              => j < k

\* C4 witness: both titles were collected, the second more than once, and
\* both are in the returned list
C4_Witness ==
  /\ Collected
  /\ Len(rss) >= 3
  /\ rss[1].title = TitleTec50
  /\ rss[2].title = TitleTec80
  /\ rss[3].title = TitleTec80
  /\ Len(TecReturned) = 2

-----------------------------------------------------------------------------
(* C5: the date of an entry and the recency filter *)

\* collect_rss has returned
RssCollected == pc \notin {"main", "collect_rss"}

\* the date fields of an entry that are set, in the order published, updated,
\* created
Stamps(e) ==
  SelectSeq(<<e.published_parsed, e.updated_parsed, e.created_parsed>>,
            LAMBDA f : f # <<>>)

\* the articles collected from the i-th feed
FromFeed(n) == SelectSeq(rss, LAMBDA a : a.source = RSS_SOURCES[n])

\* C5: the timestamp of an entry is the first of published, updated, created
\* that is set, else the time at which it is read; a relevant entry is dropped
\* exactly when its timestamp is earlier than the cutoff, the start of the run
\* minus 7 days: one stamped a day before the cutoff is dropped, one stamped a
\* day after it is kept under that date, one without a date is kept.
C5_RecencyByFirstDate ==
  RssCollected =>
    \A n \in 1..Len(RSS_SOURCES) :
      LET e     == feeds[n].entries[1]
          stamp == Stamps(e)[1][1]
      IN  Len(feeds[n].entries) = 1 =>
            /\ Len(FromFeed(n)) <= 1
            /\ Stamps(e) = <<>> =>
                 /\ Len(FromFeed(n)) = 1
                 /\ \E now \in (since + RecencyDays * 24)..clock :
                      FromFeed(n)[1].date = strftime(now)
            /\ Stamps(e) # <<>> =>
                 /\ FromFeed(n) = <<>> <=> stamp < since
                 /\ FromFeed(n) # <<>> => FromFeed(n)[1].date = strftime(stamp)
                 /\ stamp = since - 24 => FromFeed(n) = <<>>
                 /\ stamp = since + 24 => FromFeed(n) # <<>>

\* C5 witness: an entry whose updated field is the first one set and lies
\* exactly at the cutoff was kept, under that date; an entry without a
\* published field was dropped for its updated field though its created field
\* is recent
C5_Witness ==
  /\ RssCollected
  /\ feeds[1].entries[1].published_parsed = <<>>
  /\ feeds[1].entries[1].updated_parsed = <<since>>
  /\ feeds[1].entries[1].created_parsed = <<Ago(8, 0)>>
  /\ Len(FromFeed(1)) = 1
  /\ FromFeed(1)[1].date = strftime(since)
  /\ Len(feeds[2].entries) = 1
  /\ FromFeed(2) = <<>>

-----------------------------------------------------------------------------
(* C6: relevance *)

\* some entry of the keyword list occurs in the text once the letters of the
\* text are made small
HasKeyword(text) ==
  \E n \in 1..Len(ENERGY_KW) :
    \E p \in 0..(Len(text) - Len(ENERGY_KW[n])) :
      \A j \in 1..Len(ENERGY_KW[n]) : LowerChar(text[p + j]) = ENERGY_KW[n][j]

\* C6: every collected article holds a keyword: a feed article in its title,
\* a space and its summary, which is the cleaned summary cut to 500
\* characters; a scraped article in its title. So no item whose checked text
\* is without a keyword is collected.
C6_CollectedAreRelevant ==
  pc = "generate_digest" =>
    \A k \in 1..Len(articles) :
      LET a == articles[k]
      IN  IF \E n \in 1..Len(RSS_SOURCES) : a.source = RSS_SOURCES[n]
          THEN /\ Len(a.summary) <= 500
               /\ HasKeyword(a.title \o <<32>> \o a.summary)
          ELSE HasKeyword(a.title)

\* C6 witness: collected were a feed entry for the keyword inside the last
\* word of its title and a listing item for a keyword in capitals
C6_Witness ==
  /\ pc = "generate_digest"
  /\ Len(articles) = 2
  /\ articles[1].source = RSS_SOURCES[1] /\ articles[1].title = TitleVostok
  /\ articles[2].source = SCRAPE_SOURCES[1].name
  /\ articles[2].title = Strip(TitleTariff)

-----------------------------------------------------------------------------
(* C7, C8: the request and the answer *)

\* generate_digest was called and has ended
GenerateEnded == Len(trace) >= 4

\* C7: whatever list generate_digest is given, a request reaches the service
\* and lists at least one article: the placeholder alone for an empty list,
\* else the given articles numbered from 1 in list order.
C7_RequestListsArticles ==
  GenerateEnded =>
    /\ request # <<>>
    /\ \E now \in StartClock..clock :
         Contains(format_news_block(IF articles = <<>> THEN <<Placeholder(now)>>
                                    ELSE articles),
                  request[1])

\* C8: generate_digest returns the document of J both for the answer J and
\* for J between fence lines, and fails on an answer that is not JSON.
C8_FencedParsesAsBare ==
  GenerateEnded =>
    /\ response \in {AnswerBare, Fenced(AnswerBare)} =>
         raised = <<>> /\ digest = json_loads(AnswerBare).val
    /\ response = AnswerProse => raised # <<>>

-----------------------------------------------------------------------------
(* C9: the block flow of the sections *)

\* the blocks of a story with every keep-together group replaced by its blocks
FlatBlocks(story) ==
  LET RECURSIVE F(_)
      F(k) == IF k > Len(story) THEN <<>>
              ELSE (IF story[k].kind = "KeepTogether" THEN story[k].blocks
                    ELSE <<story[k]>>) \o F(k + 1)
  IN  F(1)

\* what a header or an item row shows
Shown(b) ==
  IF b.kind = "section_header" THEN <<"header", b.text>>
  ELSE <<"row", b.label, b.source, b.text>>

\* the field of d, or the default when d has no such field
FieldOr(d, key, default) == IF key \in DOMAIN d THEN d[key] ELSE default

RECURSIVE ExpectedFlow(_, _)
\* the headers and rows a list of sections is to show, from the k-th section
\* on: for a section with items its header, then a row per item
ExpectedFlow(secs, k) ==
  IF k > Len(secs) THEN <<>>
  ELSE LET items == FieldOr(secs[k], K_items, <<>>)
           here  == IF items = <<>> THEN <<>>
                    ELSE << <<"header", FieldOr(secs[k], K_icon, <<8226>>)
                                        \o <<32, 32>> \o secs[k][K_title]>> >>
                         \o [j \in 1..Len(items) |->
                               <<"row", FieldOr(items[j], K_label, <<>>),
                                        FieldOr(items[j], K_source, <<>>),
                                        FieldOr(items[j], K_text, <<>>)>>]
       IN  here \o ExpectedFlow(secs, k + 1)

RECURSIVE ExpectedBlocks(_, _)
\* the number of blocks the sections from the k-th on add to the story: for a
\* section with n > 0 items one group, n - 1 rows and one spacer
ExpectedBlocks(secs, k) ==
  IF k > Len(secs) THEN 0
  ELSE LET n == Len(FieldOr(secs[k], K_items, <<>>))
       IN  (IF n = 0 THEN 0 ELSE n + 1) + ExpectedBlocks(secs, k + 1)

\* C9: in the story of a completed build_pdf the headers and item rows are, in
\* document order, the header of each section that has items followed by one
\* row per item; each header is in a keep-together group of its own with the
\* first row of its section, the later rows are blocks of their own, and a
\* section whose item list is empty or missing adds no block.
C9_SectionFlow ==
  pdf # <<>> =>
    LET story  == pdf[1].story
        secs   == FieldOr(digest, K_sections, <<>>)
        acts   == FieldOr(digest, K_requires_action, <<>>)
        groups == SelectSeq(story, LAMBDA b : b.kind = "KeepTogether")
        seen   == SelectSeq(FlatBlocks(story),
                            LAMBDA b : b.kind \in {"section_header", "news_item"})
    IN  /\ [k \in 1..Len(seen) |-> Shown(seen[k])] = ExpectedFlow(secs, 1)
        /\ \A k \in 1..Len(story) : story[k].kind # "section_header"
        /\ \A g \in 1..Len(groups) :
             /\ Len(groups[g].blocks) = 3
             /\ groups[g].blocks[1].kind = "section_header"
             /\ groups[g].blocks[2].kind = "Spacer"
             /\ groups[g].blocks[3].kind = "news_item"
        /\ Len(story) = 3 + ExpectedBlocks(secs, 1) + (IF acts = <<>> THEN 0 ELSE 4)

\* C9 witness: a document whose first section has no items and whose second
\* has three was built: one group, two rows outside it
C9_Witness ==
  /\ pdf # <<>>
  /\ K_sections \in DOMAIN digest
  /\ digest[K_sections] = <<SecEmpty, SecThree>>
  /\ Len(SelectSeq(pdf[1].story, LAMBDA b : b.kind = "KeepTogether")) = 1
  /\ Len(SelectSeq(pdf[1].story, LAMBDA b : b.kind = "news_item")) = 2

-----------------------------------------------------------------------------
(* C10: absent fields *)

\* C10: build_pdf completes on every parsed document, whichever fields of the
\* document, of a section, of an item or of an action are absent, and draws
\* the period of the document, or the default period, in the banner.
C10_MissingFieldsTolerated ==
  Len(trace) >= 2 /\ trace[1].stage = "build_pdf" =>
    /\ trace[2].ev = "return"
    /\ pdf # <<>>
    /\ pdf[1].banner = FieldOr(digest, K_period, DefaultPeriod)

-----------------------------------------------------------------------------
(* C11: the cutoff and the scraped sources *)

\* collect_scraped has returned
ScrapedReturned == pc = "dedup"

\* the articles collected from the n-th listing page
FromPage(n) == SelectSeq(scrp, LAMBDA a : a.source = SCRAPE_SOURCES[n].name)

\* the elements of the n-th page that some alternative of its item selector
\* matches, in page order
Selected(n) ==
  IF pages[n].kind = "error" THEN <<>>
  ELSE SelectSeq(pages[n].elements,
                 LAMBDA el : \E k \in 1..Len(SCRAPE_SOURCES[n].item_sel) :
                               SCRAPE_SOURCES[n].item_sel[k] \in el.matches)

\* the first 20 of a list
First20(s) == [k \in 1..(IF Len(s) < 20 THEN Len(s) ELSE 20) |-> s[k]]

\* the listing items that are to be collected from the n-th page: those of
\* the first 20 selected that have a title element with a keyword in its text
Due(n) ==
  SelectSeq(First20(Selected(n)),
            LAMBDA el : el.title_el # <<>> /\ HasKeyword(get_text(el.title_el[1])))

\* C11: whatever the cutoff, collect_scraped returns, page by page and in page
\* order, one article for every item among the first 20 selected that has a
\* title element with a relevant title, under that title; the date shown on
\* an item plays no part.
C11_CutoffIgnored ==
  ScrapedReturned =>
    /\ scrp = FromPage(1) \o FromPage(2)
    /\ \A n \in 1..Len(SCRAPE_SOURCES) :
         /\ Len(FromPage(n)) = Len(Due(n))
         /\ \A k \in 1..Len(Due(n)) :
              FromPage(n)[k].title = get_text(Due(n)[k].title_el[1])

\* C11 witness: with the cutoff at the time of the call, an item dated a
\* month earlier was collected, and of a page of more than 20 items the
\* 20th was collected and the 21st was not
C11_Witness ==
  /\ ScrapedReturned
  /\ since = StartClock
  /\ pages[1] = PageLong
  /\ Len(FromPage(1)) = 2
  /\ pages[2].kind = "ok"
  /\ Len(pages[2].elements) = 2
  /\ pages[2].elements[2].stamp < since
  /\ Len(FromPage(2)) = 2
  /\ FromPage(2)[2].title = Strip(TitleTariff)

-----------------------------------------------------------------------------
(* C12: the alternatives of an item selector *)

\* the elements of the n-th page that the k-th alternative of its item
\* selector matches, in page order
MatchesOf(n, k) ==
  IF pages[n].kind = "error" THEN <<>>
  ELSE SelectSeq(pages[n].elements,
                 LAMBDA el : SCRAPE_SOURCES[n].item_sel[k] \in el.matches)

\* the matches of the first alternative that has any on the n-th page
FirstAlternative(n) ==
  LET hit == {k \in 1..Len(SCRAPE_SOURCES[n].item_sel) : MatchesOf(n, k) # <<>>}
  IN  IF hit = {} THEN <<>>
      ELSE MatchesOf(n, CHOOSE k \in hit : \A j \in hit : k <= j)

\* C12: the listing items processed are the matches of the first alternative
\* of the item selector that has a match on the page: the articles of a page
\* are those of the relevant titled items among the first 20 of these, and an
\* element that only a later alternative matches yields no article.
C12_FirstAlternativeOnly ==
  ScrapedReturned =>
    \A n \in 1..Len(SCRAPE_SOURCES) :
      LET due == SelectSeq(First20(FirstAlternative(n)),
                           LAMBDA el : /\ el.title_el # <<>>
                                       /\ HasKeyword(get_text(el.title_el[1])))
      IN  /\ Len(FromPage(n)) = Len(due)
          /\ \A k \in 1..Len(due) :
               FromPage(n)[k].title = get_text(due[k].title_el[1])

-----------------------------------------------------------------------------
(* C13: the period in the message and in the document *)

\* the text s ends with the text p
EndsWith(s, p) ==
  /\ Len(p) <= Len(s)
  /\ \A k \in 1..Len(p) : s[Len(s) - Len(p) + k] = p[k]

\* C13: whenever a message was handed to the relay, the period at the end of
\* its subject and in its body is the period drawn in the title block and in
\* the page banner of the document built before, also for a parsed document
\* without a period field.
C13_SamePeriodEverywhere ==
  email # <<>> =>
    /\ pdf # <<>>
    /\ pdf[1].story[1].kind = "title_block"
    /\ pdf[1].story[1].period = pdf[1].banner
    /\ email[1].body_period = pdf[1].banner
    /\ EndsWith(email[1].subject, pdf[1].banner)
====
